---- MODULE Spec2Model ----
(***************************************************************************)
(* Model of the embedding and retrieval store of pdf-reasoner:             *)
(*   src/embeddings.py    Doc2VecEmbeddings (model lifecycle)              *)
(*   src/vector_store.py  FAISSVectorStore  (index, registry, search,      *)
(*                        persistence) and the module-level start-up       *)
(* One process at a time owns the in-memory store; the three artifacts     *)
(* under data/ outlive it.                                                 *)
(*                                                                         *)
(* Abstractions: an embedding is a point of a one-dimensional integer      *)
(* space (the code's is 300-dimensional float32); what infer_vector        *)
(* returns is a free choice, since Doc2Vec inference is stochastic.        *)
(* A text is a sequence of raw words.                                      *)
(***************************************************************************)
EXTENDS Integers, Sequences, FiniteSets, TLC

\* ------------------------------------------------------------ bounds
\* largest number of vectors the index may hold
MaxIndex == 2

\* ------------------------------------------------------------ program constants
\* Doc2VecEmbeddings(min_count=2)
min_count == 2
\* gensim simple_preprocess keeps tokens of min_len..max_len characters
min_len == 2
max_len == 15

\* ------------------------------------------------------------ input universes
DocIds == {"A", "B"}
\* an identifier no add_document call ever receives
UnknownId == "Z"
QueryIds == DocIds \cup {UnknownId}
\* the filename each document is uploaded under
FilenameOf(d) == IF d = "A" THEN "a.pdf" ELSE "b.pdf"
Vec == {0, 1}

\* raw words: "Xx" is "xx" capitalised, "y" is a one-letter word
Words == {"xx", "Xx", "zz", "y"}
\* T1 repeats a word; no word of T2 occurs twice in it
T1 == <<"xx", "Xx">>
T2 == <<"zz", "y">>
\* a chunk is (text, page)
C1a == <<T1, 1>>
C2a == <<T2, 1>>
C2b == <<T2, 2>>
\* the chunk lists the extractor hands to add_document (never empty): one chunk,
\* one chunk without a repeated word, two chunks of equal text (whose corpus
\* repeats "zz"), two of different text (whose corpus repeats "xx")
ChunkLists == {<<C1a>>, <<C2a>>, <<C2a, C2b>>, <<C2a, C1a>>}
\* the chunk lists of direct calls: the empty list as well
ApiChunkLists == ChunkLists \cup {<<>>}
\* the values of k: 3 exceeds the length of every chunk list
Ks == {1, 2, 3}
\* the corpora fit is called with directly
TextLists == {<<>>, <<T1>>, <<T2>>, <<T2, T2>>}

\* ------------------------------------------------------------ state
VARIABLES
  running,      \* a process is up (constructed and loaded)
  model,        \* Doc2VecEmbeddings.model: "None" | "Unfit" | "Trained"
  vocab,        \* the words the model retained when it was fitted
  index,        \* FAISS index: the sequence of stored vectors
  metadata,     \* doc_id -> list of (chunk, page)
  doc_ids,      \* index position -> doc_id
  filenames,    \* doc_id -> filename
  modelFile,    \* data/doc2vec_model
  indexFile,    \* data/faiss.index
  registryFile, \* data/vector_store_state.pkl
  ret           \* the last call of the running process and its outcome

vars == <<running, model, vocab, index, metadata, doc_ids, filenames,
          modelFile, indexFile, registryFile, ret>>

mem == <<model, vocab, index, metadata, doc_ids, filenames>>
disk == <<modelFile, indexFile, registryFile>>

EmptyMap == [d \in {} |-> <<>>]

\* ------------------------------------------------------------ helpers
Range(s) == {s[i] : i \in DOMAIN s}

Put(m, key, val) == [d \in DOMAIN m \cup {key} |-> IF d = key THEN val ELSE m[d]]

Repeat(x, n) == [i \in 1..n |-> x]

\* ------------------------------------------------------------ embeddings.py
Lower(w) == IF w = "Xx" THEN "xx" ELSE w

WordLen(w) == IF w = "y" THEN 1 ELSE 2

\* _preprocess_text: simple_preprocess(text, deacc=True)
KeepToken(w) == WordLen(w) >= min_len /\ WordLen(w) <= max_len

Preprocess(text) == SelectSeq([i \in DOMAIN text |-> Lower(text[i])], KeepToken)

\* occurrences of word w in the preprocessed corpus
Count(texts, w) ==
  Cardinality({p \in UNION {{i} \X DOMAIN Preprocess(texts[i]) : i \in DOMAIN texts} :
                 Preprocess(texts[p[1]])[p[2]] = w})

\* build_vocab: the words occurring at least min_count times
BuildVocab(texts) == {w \in {Lower(x) : x \in Words} : Count(texts, w) >= min_count}

\* fit: the model object is replaced first; train raises on an empty vocabulary,
\* and only a trained model is saved
FitOutcome(texts, file) ==
  IF BuildVocab(texts) = {}
    THEN [model |-> "Unfit", vocab |-> {}, file |-> file, err |-> "RuntimeError"]
    ELSE [model |-> "Trained", vocab |-> BuildVocab(texts),
          file |-> [st |-> "ok", vocab |-> BuildVocab(texts)], err |-> "none"]

\* _load_model in __init__: a missing or unreadable file leaves the model None
LoadModel(file) ==
  IF file.st = "ok" THEN [model |-> "Trained", vocab |-> file.vocab]
                    ELSE [model |-> "None", vocab |-> {}]

\* ------------------------------------------------------------ vector_store.py
\* squared L2 distance, the score IndexFlatL2 ranks by
Dist(q, v) == (q - v) * (q - v)

\* the orders in which IndexFlatL2 may rank the positions S of the stored
\* vectors idx for query q: ascending distance, ties in any order
\* (positions are 1-based here)
RECURSIVE Orders(_, _, _)
Orders(idx, q, S) ==
  IF S = {} THEN {<<>>}
  ELSE UNION {{<<x>> \o r : r \in Orders(idx, q, S \ {x})} :
                x \in {y \in S : \A z \in S : Dist(q, idx[y]) <= Dist(q, idx[z])}}

\* fault variant: the farthest vector ranked first
RankingsFarthestFirst(idx, q) ==
  {[i \in DOMAIN idx |-> p[Len(idx) + 1 - i]] : p \in Orders(idx, q, DOMAIN idx)}

Rankings(idx, q) == Orders(idx, q, DOMAIN idx)

\* index.search(q, kk): row I[0], the 0-based labels of the kk nearest vectors,
\* padded with -1 when the index holds fewer than kk
FaissSearch(idx, q, kk) ==
  {[i \in 1..kk |-> IF i <= Len(idx) THEN p[i] - 1 ELSE -1] : p \in Rankings(idx, q)}

\* _get_doc_start_idx: the first position tagged d, 0 when there is none
GetDocStartIdx(ids, d) ==
  IF \E i \in DOMAIN ids : ids[i] = d
    THEN (CHOOSE i \in DOMAIN ids : ids[i] = d /\ \A j \in 1..(i - 1) : ids[j] # d) - 1
    ELSE 0

\* fault variant: a filter that accepts every valid label, whatever its tag
TaggedAny(ids, d, i) == i >= 0 /\ i < Len(ids)

\* the filter of the search loop: a valid label tagged with the requested document
Tagged(ids, d, i) == i >= 0 /\ i < Len(ids) /\ ids[i + 1] = d

\* chunk not in seen_chunks, negated: a result already has this text
Seen(res, c) == \E r \in Range(res) : r[1] = c[1]

\* list[off] of Python: negative offsets count from the end, others raise
InRange(list, off) == off < Len(list) /\ off >= -Len(list)

At(list, off) == IF off >= 0 THEN list[off + 1] ELSE list[Len(list) + off + 1]

\* the search loop over I[0] from position pos on, with res collected so far
\* (hits: the labels the results were read at)
RECURSIVE Walk(_, _, _, _, _, _, _, _)
Walk(md, ids, I, pos, d, k, res, hits) ==
  IF pos > Len(I) THEN [err |-> "none", val |-> res, hits |-> hits]
  ELSE IF ~Tagged(ids, d, I[pos]) THEN Walk(md, ids, I, pos + 1, d, k, res, hits)
  ELSE LET off == I[pos] - GetDocStartIdx(ids, d) IN
    IF ~InRange(md[d], off) THEN [err |-> "IndexError", val |-> <<>>, hits |-> <<>>]
    ELSE LET c == At(md[d], off) IN
      IF Seen(res, c)
        THEN Walk(md, ids, I, pos + 1, d, k, res, hits)
      ELSE IF Len(res) + 1 >= k
        THEN [err |-> "none", val |-> Append(res, c), hits |-> Append(hits, I[pos])]
      ELSE Walk(md, ids, I, pos + 1, d, k, Append(res, c), Append(hits, I[pos]))

\* search after the query has been embedded as q: every outcome the ranking allows.
\* With an empty tag sequence the index is asked for 0 neighbours, which the
\* FAISS wrapper either rejects or answers with an empty row.
SearchCore(idx, md, ids, d, q, k) ==
  IF d \notin DOMAIN md THEN {[err |-> "none", val |-> <<>>, hits |-> <<>>]}
  ELSE IF Len(ids) = 0
    THEN {[err |-> "none", val |-> <<>>, hits |-> <<>>],
          [err |-> "AssertionError", val |-> <<>>, hits |-> <<>>]}
  ELSE {Walk(md, ids, I, 1, d, k, <<>>, <<>>) : I \in FaissSearch(idx, q, Len(ids))}

Missing == "missing"
Corrupt == "corrupt"

NoIndexFile == [st |-> Missing, data |-> <<>>]
NoRegistryFile ==
  [st |-> Missing, metadata |-> EmptyMap, doc_ids |-> <<>>, filenames |-> EmptyMap]
NoModelFile == [st |-> Missing, vocab |-> {}]

\* _save_state: the index file is written first, then the registry file
SaveIndex(idx) == [st |-> "ok", data |-> idx]

\* fault variant: a registry file written without the filenames
SaveRegistryNoFilenames(md, ids, fns) ==
  [st |-> "ok", metadata |-> md, doc_ids |-> ids, filenames |-> EmptyMap]

SaveRegistry(md, ids, fns) ==
  [st |-> "ok", metadata |-> md, doc_ids |-> ids, filenames |-> fns]

\* fault variant: a load that compares the two lengths and starts empty when
\* they differ
LoadOutcomeChecked(ifile, rfile) ==
  IF /\ ifile.st # Corrupt
     /\ rfile.st # Corrupt
     /\ Len(IF ifile.st = "ok" THEN ifile.data ELSE <<>>) = Len(rfile.doc_ids)
    THEN [index |-> IF ifile.st = "ok" THEN ifile.data ELSE <<>>,
          metadata |-> rfile.metadata, doc_ids |-> rfile.doc_ids,
          filenames |-> rfile.filenames, ok |-> TRUE]
    ELSE [index |-> <<>>, metadata |-> EmptyMap, doc_ids |-> <<>>,
          filenames |-> EmptyMap, ok |-> FALSE]

\* _load_state on a freshly constructed store: the index file is read first;
\* an exception at either read ends the load and keeps what was assigned before
LoadOutcome(ifile, rfile) ==
  IF ifile.st = Corrupt
    THEN [index |-> <<>>, metadata |-> EmptyMap, doc_ids |-> <<>>,
          filenames |-> EmptyMap, ok |-> FALSE]
  ELSE LET idx == IF ifile.st = "ok" THEN ifile.data ELSE <<>> IN
    IF rfile.st = Corrupt
      THEN [index |-> idx, metadata |-> EmptyMap, doc_ids |-> <<>>,
            filenames |-> EmptyMap, ok |-> FALSE]
    ELSE IF rfile.st = "ok"
      THEN [index |-> idx, metadata |-> rfile.metadata, doc_ids |-> rfile.doc_ids,
            filenames |-> rfile.filenames, ok |-> TRUE]
    ELSE [index |-> idx, metadata |-> EmptyMap, doc_ids |-> <<>>,
          filenames |-> EmptyMap, ok |-> TRUE]

\* the record of the last call: its name and the exception it raised, if any
Ret(op, err) == [op |-> op, err |-> err]

\* while no process is up there is no call
NoCall == Ret("none", "none")

\* ------------------------------------------------------------ actions
Init ==
  /\ running = TRUE
  /\ model = "None"
  /\ vocab = {}
  /\ index = <<>>
  /\ metadata = EmptyMap
  /\ doc_ids = <<>>
  /\ filenames = EmptyMap
  /\ modelFile = NoModelFile
  /\ indexFile = NoIndexFile
  /\ registryFile = NoRegistryFile
  /\ ret = Ret("load", "none")

\* fault variant: add_document fits whenever the model is not a trained one
NeedsFitUnlessTrained(m) == m # "Trained"

\* if not self.embeddings.model
NeedsFit(m) == m = "None"

\* add_document up to the call of _save_state: the memory it leaves and the
\* exception it raises, if any. vecs is what embed_batch returns. After a failed
\* fit the model object exists (it is not None), so later calls skip fit and
\* infer with it. index.add rejects the empty array of an empty chunk list.
AddOutcome(doc_id, chunks, filename, vecs) ==
  LET texts == [i \in DOMAIN chunks |-> chunks[i][1]]
      fit == IF NeedsFit(model) THEN FitOutcome(texts, modelFile)
             ELSE [model |-> model, vocab |-> vocab, file |-> modelFile, err |-> "none"]
      base == [model |-> fit.model, vocab |-> fit.vocab, modelFile |-> fit.file,
               metadata |-> Put(metadata, doc_id, chunks),
               filenames |-> Put(filenames, doc_id, filename),
               index |-> index, doc_ids |-> doc_ids, err |-> fit.err]
  IN IF fit.err # "none" THEN base
     ELSE IF Len(chunks) = 0
       THEN [base EXCEPT !.err = "ValueError"]
     ELSE [base EXCEPT !.index = index \o vecs,
                       !.doc_ids = doc_ids \o Repeat(doc_id, Len(chunks))]

\* add_document(doc_id, chunks_with_pages, filename), returning or raising
AddDocument(doc_id, chunks, filename, vecs) ==
  /\ running
  /\ Len(index) + Len(chunks) <= MaxIndex
  /\ Len(doc_ids) + Len(chunks) <= MaxIndex
  /\ LET o == AddOutcome(doc_id, chunks, filename, vecs) IN
       /\ model' = o.model
       /\ vocab' = o.vocab
       /\ modelFile' = o.modelFile
       /\ metadata' = o.metadata
       /\ filenames' = o.filenames
       /\ index' = o.index
       /\ doc_ids' = o.doc_ids
       /\ indexFile' = IF o.err = "none" THEN SaveIndex(o.index) ELSE indexFile
       /\ registryFile' = IF o.err = "none"
                            THEN SaveRegistry(o.metadata, o.doc_ids, o.filenames)
                            ELSE registryFile
       /\ ret' = Ret("add_document", o.err)
  /\ UNCHANGED running

\* add_document whose process dies inside _save_state, after the index file has
\* been written and before the registry file is opened
CrashInSave(doc_id, chunks, filename, vecs) ==
  /\ running
  /\ Len(index) + Len(chunks) <= MaxIndex
  /\ Len(doc_ids) + Len(chunks) <= MaxIndex
  /\ LET o == AddOutcome(doc_id, chunks, filename, vecs) IN
       /\ o.err = "none"
       /\ modelFile' = o.modelFile
       /\ indexFile' = SaveIndex(o.index)
  /\ running' = FALSE
  /\ model' = "None"
  /\ vocab' = {}
  /\ index' = <<>>
  /\ metadata' = EmptyMap
  /\ doc_ids' = <<>>
  /\ filenames' = EmptyMap
  /\ ret' = NoCall
  /\ UNCHANGED registryFile

\* search(query, doc_id, k) on an instance whose model is m, whose index is idx and
\* whose registry is md, ids; q is what embed returns for the query. Without a
\* model embed raises ValueError, unless the document is unknown and search has
\* returned before.
SearchOn(m, idx, md, ids, doc_id, q, k) ==
  IF doc_id \in DOMAIN md /\ m = "None"
    THEN {[err |-> "ValueError", val |-> <<>>, hits |-> <<>>]}
    ELSE SearchCore(idx, md, ids, doc_id, q, k)

\* fault variant: the query is embedded before the registry is consulted
SearchOutcomesEmbedFirst(doc_id, q, k) ==
  IF model = "None"
    THEN {[err |-> "ValueError", val |-> <<>>, hits |-> <<>>]}
    ELSE SearchCore(index, metadata, doc_ids, doc_id, q, k)

\* search(query, doc_id, k) on the running instance: the outcomes it can have in
\* the current state
SearchOutcomes(doc_id, q, k) ==
  SearchOn(model, index, metadata, doc_ids, doc_id, q, k)

\* exists(doc_id)
ExistsResult(doc_id) == doc_id \in DOMAIN metadata

\* get_filename(doc_id): the filename, or None
GetFilenameResult(doc_id) ==
  IF doc_id \in DOMAIN filenames THEN filenames[doc_id] ELSE "None"

\* a call of search
Search(doc_id, q, k, out) ==
  /\ running
  /\ out \in SearchOutcomes(doc_id, q, k)
  /\ ret' = Ret("search", out.err)
  /\ UNCHANGED <<running, mem, disk>>

\* a call of exists
Exists(doc_id) ==
  /\ running
  /\ ret' = Ret("exists", "none")
  /\ UNCHANGED <<running, mem, disk>>

\* a call of get_filename
GetFilename(doc_id) ==
  /\ running
  /\ ret' = Ret("get_filename", "none")
  /\ UNCHANGED <<running, mem, disk>>

\* Doc2VecEmbeddings.fit(texts), called directly
Fit(texts) ==
  /\ running
  /\ LET fit == FitOutcome(texts, modelFile) IN
       /\ model' = fit.model
       /\ vocab' = fit.vocab
       /\ modelFile' = fit.file
       /\ ret' = Ret("fit", fit.err)
  /\ UNCHANGED <<running, index, metadata, doc_ids, filenames, indexFile, registryFile>>

\* _save_state(), called directly
SaveState ==
  /\ running
  /\ indexFile' = SaveIndex(index)
  /\ registryFile' = SaveRegistry(metadata, doc_ids, filenames)
  /\ ret' = Ret("save", "none")
  /\ UNCHANGED <<running, mem, modelFile>>

\* the process ends: its memory is gone, the files stay
Stop ==
  /\ running
  /\ running' = FALSE
  /\ model' = "None"
  /\ vocab' = {}
  /\ index' = <<>>
  /\ metadata' = EmptyMap
  /\ doc_ids' = <<>>
  /\ filenames' = EmptyMap
  /\ ret' = NoCall
  /\ UNCHANGED disk

\* while no process is up, a file of data/ is lost or damaged
DiskFault(file, kind) ==
  /\ ~running
  /\ CASE file = "model" ->
            /\ modelFile.st = "ok"
            /\ modelFile' = [st |-> kind, vocab |-> {}]
            /\ UNCHANGED <<indexFile, registryFile>>
       [] file = "index" ->
            /\ indexFile.st = "ok"
            /\ indexFile' = [st |-> kind, data |-> <<>>]
            /\ UNCHANGED <<modelFile, registryFile>>
       [] OTHER ->
            /\ registryFile.st = "ok"
            /\ registryFile' = [st |-> kind, metadata |-> EmptyMap, doc_ids |-> <<>>,
                                filenames |-> EmptyMap]
            /\ UNCHANGED <<modelFile, indexFile>>
  /\ ret' = NoCall
  /\ UNCHANGED <<running, mem>>

\* start-up: FAISSVectorStore() (which constructs Doc2VecEmbeddings, which loads
\* the model file), then _load_state()
Start ==
  /\ ~running
  /\ running' = TRUE
  /\ model' = LoadModel(modelFile).model
  /\ vocab' = LoadModel(modelFile).vocab
  /\ LET ld == LoadOutcome(indexFile, registryFile) IN
       /\ index' = ld.index
       /\ metadata' = ld.metadata
       /\ doc_ids' = ld.doc_ids
       /\ filenames' = ld.filenames
       /\ ret' = Ret("load", IF ld.ok THEN "none" ELSE "caught")
  /\ UNCHANGED disk

\* the service with its environment: uploads, queries, restarts, damaged files
Next ==
  \/ \E d \in DocIds, c \in ChunkLists :
       \E vecs \in [1..Len(c) -> Vec] : AddDocument(d, c, FilenameOf(d), vecs)
  \/ \E d \in DocIds, c \in ChunkLists :
       \E vecs \in [1..Len(c) -> Vec] : CrashInSave(d, c, FilenameOf(d), vecs)
  \/ \E d \in QueryIds, q \in Vec, k \in Ks :
       \E out \in SearchOutcomes(d, q, k) : Search(d, q, k, out)
  \/ \E d \in QueryIds : Exists(d)
  \/ \E d \in QueryIds : GetFilename(d)
  \/ SaveState
  \/ Stop
  \/ \E file \in {"model", "index", "registry"}, kind \in {Missing, Corrupt} :
       DiskFault(file, kind)
  \/ Start

Spec == Init /\ [][Next]_vars

\* one process whose objects are called directly, fit included
NextApi ==
  \/ \E d \in DocIds, c \in ApiChunkLists :
       \E vecs \in [1..Len(c) -> Vec] : AddDocument(d, c, FilenameOf(d), vecs)
  \/ \E d \in QueryIds, q \in Vec, k \in Ks :
       \E out \in SearchOutcomes(d, q, k) : Search(d, q, k, out)
  \/ \E t \in TextLists : Fit(t)

SpecApi == Init /\ [][NextApi]_vars

\* ------------------------------------------------------------ properties
\* the index positions (1-based) tagged d
Positions(ids, d) == {i \in DOMAIN ids : ids[i] = d}

\* the positions tagged d form one block
Contiguous(ids, d) ==
  \A i, j \in Positions(ids, d) : \A m \in i..j : ids[m] = d

RECURSIVE SumLen(_, _)
SumLen(md, S) ==
  IF S = {} THEN 0
  ELSE LET d == CHOOSE x \in S : TRUE IN Len(md[d]) + SumLen(md, S \ {d})

\* the distinct chunk texts of document d
TextsOf(d) == {c[1] : c \in Range(metadata[d])}

\* C1: between operations, the index, the tag sequence and the registry's chunk
\* lists all have the same total length.
C1_SizesAgree ==
  running =>
    /\ Len(index) = Len(doc_ids)
    /\ Len(doc_ids) = SumLen(metadata, DOMAIN metadata)

\* C2: whatever search returns has at most k results, each read at a position
\* tagged doc_id and equal to the chunk the registry holds for doc_id at that
\* position's offset in the document's range, and no two results share a text.
C2_SearchScopedToDocument ==
  ret.op = "search" =>
    \A d \in QueryIds, q \in Vec, k \in Ks :
      \A out \in SearchOutcomes(d, q, k) :
        out.err = "none" =>
          /\ Len(out.val) <= k
          /\ Len(out.hits) = Len(out.val)
          /\ \A i \in DOMAIN out.val :
               /\ out.hits[i] + 1 \in Positions(doc_ids, d)
               /\ LET first == CHOOSE p \in Positions(doc_ids, d) :
                                 \A p2 \in Positions(doc_ids, d) : p <= p2
                  IN out.hits[i] + 1 - first + 1 \in DOMAIN metadata[d]
                     /\ out.val[i] = metadata[d][out.hits[i] + 1 - first + 1]
          /\ \A i, j \in DOMAIN out.val : i # j => out.val[i][1] # out.val[j][1]

\* C2 witness: a search has returned while two documents share the index, the
\* second one's range starting after the first one's, and it has a result
C2_Witness ==
  /\ ret = Ret("search", "none")
  /\ Positions(doc_ids, "A") # {}
  /\ GetDocStartIdx(doc_ids, "B") > 0
  /\ \E q \in Vec, k \in Ks : \E out \in SearchOutcomes("B", q, k) : Len(out.val) >= 1

\* C3: for an identifier the registry does not hold (one never ingested among
\* them), exists is false, get_filename is None and search returns the empty
\* list without raising, in every state, trained or not.
C3_UnknownDocument ==
  /\ ~ExistsResult(UnknownId)
  /\ \A d \in QueryIds :
       d \notin DOMAIN metadata =>
         /\ GetFilenameResult(d) = "None"
         /\ \A q \in Vec, k \in Ks :
              SearchOutcomes(d, q, k) = {[err |-> "none", val |-> <<>>, hits |-> <<>>]}

\* C3 witness: search has been called on an empty store with no model
C3_Witness ==
  /\ running
  /\ ret.op = "search"
  /\ model = "None"
  /\ metadata = EmptyMap
  /\ index = <<>>

\* C4: after a start-up load that found the index or the registry file missing
\* or unreadable, the store in memory is empty.
C4_FailedLoadGivesEmptyStore ==
  (ret.op = "load" /\ (indexFile.st # "ok" \/ registryFile.st # "ok")) =>
    /\ index = <<>>
    /\ metadata = EmptyMap
    /\ doc_ids = <<>>
    /\ filenames = EmptyMap

\* C5: right after a save, a fresh instance (constructed, which loads the model
\* file, then loading the index and registry files) answers exists, get_filename
\* and search (same query embedding, same k) as the instance that saved.
C5_SaveLoadRoundTrip ==
  ret.op = "save" =>
    LET ld == LoadOutcome(indexFile, registryFile)
        lm == LoadModel(modelFile)
    IN \A d \in QueryIds :
         /\ (d \in DOMAIN ld.metadata) = ExistsResult(d)
         /\ (IF d \in DOMAIN ld.filenames THEN ld.filenames[d] ELSE "None")
              = GetFilenameResult(d)
         /\ \A q \in Vec, k \in Ks :
              SearchOn(lm.model, ld.index, ld.metadata, ld.doc_ids, d, q, k)
                = SearchOutcomes(d, q, k)

\* C6: fit on a Trained model leaves the model and its vocabulary as they were.
C6_FitOnTrainedIsNoOp ==
  [][(model = "Trained" /\ ret'.op = "fit") => (model' = model /\ vocab' = vocab)]_vars

\* the place of label h in the ranking row I
PlaceIn(I, h) == CHOOSE p \in DOMAIN I : I[p] = h

\* C7: for every ranking the index can produce, the results are read at
\* positions of non-decreasing distance to the query, in the ranking's order,
\* and a tagged position the loop passed over holds a text already returned.
C7_ResultsInRankingOrder ==
  ret.op = "search" =>
    \A d \in DOMAIN metadata, q \in Vec, k \in Ks :
      (doc_ids # <<>> /\ model # "None") =>
        \A I \in FaissSearch(index, q, Len(doc_ids)) :
          LET out == Walk(metadata, doc_ids, I, 1, d, k, <<>>, <<>>)
              n == Len(out.hits)
          IN out.err = "none" =>
               /\ \A i \in 1..(n - 1) :
                    /\ Dist(q, index[out.hits[i] + 1]) <= Dist(q, index[out.hits[i + 1] + 1])
                    /\ PlaceIn(I, out.hits[i]) < PlaceIn(I, out.hits[i + 1])
               /\ \A p \in DOMAIN I :
                    (/\ I[p] + 1 \in Positions(doc_ids, d)
                     /\ I[p] \notin Range(out.hits)
                     /\ (n < k \/ p < PlaceIn(I, out.hits[n])))
                    => \E i \in 1..n :
                         /\ PlaceIn(I, out.hits[i]) < p
                         /\ out.val[i][1] =
                              metadata[d][I[p] - GetDocStartIdx(doc_ids, d) + 1][1]

\* C7 witness: a search has returned on a document with two chunks of different
\* text whose vectors differ
C7_Witness ==
  /\ ret = Ret("search", "none")
  /\ model # "None"
  /\ \E d \in DOMAIN metadata :
       /\ Cardinality(TextsOf(d)) = 2
       /\ \E i, j \in Positions(doc_ids, d) :
            i \in DOMAIN index /\ j \in DOMAIN index /\ index[i] # index[j]

\* C8: when add_document has returned normally, the index file holds the index
\* and the registry file holds the registry, the tags and the filenames.
C8_AddDocumentPersists ==
  ret = Ret("add_document", "none") =>
    /\ indexFile.st = "ok"
    /\ indexFile.data = index
    /\ registryFile.st = "ok"
    /\ registryFile.metadata = metadata
    /\ registryFile.doc_ids = doc_ids
    /\ registryFile.filenames = filenames

\* C8 witness: a second document has been added and saved
C8_Witness ==
  /\ ret = Ret("add_document", "none")
  /\ Positions(doc_ids, "A") # {}
  /\ Positions(doc_ids, "B") # {}
  /\ registryFile.st = "ok"

\* C9: within a process, no call changes the chunk list, the filename or the
\* tagged positions of a document the registry holds, and those positions form
\* one block.
C9_DocumentsImmutable ==
  [][(running /\ running') =>
       \A d \in DOMAIN metadata :
         /\ d \in DOMAIN metadata'
         /\ metadata'[d] = metadata[d]
         /\ filenames'[d] = filenames[d]
         /\ Positions(doc_ids', d) = Positions(doc_ids, d)
         /\ Contiguous(doc_ids', d)]_vars

\* C10: for a document some add_document call has ingested (the registry holds
\* it and index positions are tagged with it), with U distinct chunk texts, every
\* search with k > U returns exactly U results, one per distinct text, whatever
\* else the index holds.
C10_AllDistinctChunksReturned ==
  ret.op = "search" =>
    \A d \in DocIds :
      (d \in DOMAIN metadata /\ Positions(doc_ids, d) # {}) =>
        \A q \in Vec, k \in Ks :
          k > Cardinality(TextsOf(d)) =>
            \A out \in SearchOutcomes(d, q, k) :
              /\ out.err = "none"
              /\ Len(out.val) = Cardinality(TextsOf(d))
              /\ {out.val[i][1] : i \in DOMAIN out.val} = TextsOf(d)

\* C11: within a process, a Trained model stays Trained with the vocabulary and
\* the file it has, whatever is called; the model becomes Trained only from
\* None, only in an add_document call, on the words the chunk texts of one
\* document repeat, and is saved then; a model recovered at start-up is the
\* saved one.
C11_TrainedAtMostOnce ==
  [][/\ (running /\ running' /\ model = "Trained") =>
          (model' = "Trained" /\ vocab' = vocab /\ modelFile' = modelFile)
     /\ (running /\ running' /\ model # "Trained" /\ model' = "Trained") =>
          /\ model = "None"
          /\ ret' = Ret("add_document", "none")
          /\ \E d \in DOMAIN metadata' :
               vocab' = BuildVocab([i \in DOMAIN metadata'[d] |-> metadata'[d][i][1]])
          /\ modelFile' = [st |-> "ok", vocab |-> vocab']
     /\ (~running /\ running' /\ model' = "Trained") =>
          (modelFile.st = "ok" /\ vocab' = modelFile.vocab)]_vars

\* C11 witness: add_document has completed, on a Trained model, for a document
\* whose own chunk texts would have given another vocabulary
C11_Witness ==
  /\ ret = Ret("add_document", "none")
  /\ model = "Trained"
  /\ \E d \in DOMAIN metadata :
       /\ Positions(doc_ids, d) # {}
       /\ BuildVocab([i \in DOMAIN metadata[d] |-> metadata[d][i][1]]) \notin {{}, vocab}

\* C12: when a process whose files and memory agree dies inside a save, after
\* the index file was written and before the registry file, the index file is
\* longer than the tag sequence of the registry file; and a start-up that finds
\* a readable index file longer than the tag sequence of a readable or missing
\* registry file returns without an error and leaves an index longer than the
\* tag sequence.
C12_CrashLeavesLongerIndex ==
  [][/\ (/\ running /\ ~running' /\ indexFile' # indexFile
          /\ Len(index) = Len(doc_ids)
          /\ registryFile.st # Corrupt
          /\ registryFile.doc_ids = doc_ids) =>
          /\ registryFile' = registryFile
          /\ indexFile'.st = "ok"
          /\ Len(indexFile'.data) > Len(registryFile'.doc_ids)
     /\ (/\ ~running /\ running'
          /\ indexFile.st = "ok"
          /\ registryFile.st # Corrupt
          /\ Len(indexFile.data) > Len(registryFile.doc_ids)) =>
          /\ ret' = Ret("load", "none")
          /\ index' = indexFile.data
          /\ doc_ids' = registryFile.doc_ids
          /\ Len(index') > Len(doc_ids')]_vars

\* C12 witness: a start-up has returned with the registry of the first document
\* and an index that also holds the vector of the add_document call that died
C12_Witness ==
  /\ running
  /\ ret = Ret("load", "none")
  /\ registryFile.st = "ok"
  /\ doc_ids # <<>>
  /\ Len(index) > Len(doc_ids)

\* C13: in every state of a running process, a document the registry holds
\* comes with a Trained model, and no search on it raises the model-not-trained
\* error.
C13_ExistingDocumentHasTrainedModel ==
  running =>
    \A d \in DocIds :
      ExistsResult(d) =>
        /\ model = "Trained"
        /\ \A q \in Vec, k \in Ks :
             \A out \in SearchOutcomes(d, q, k) : out.err # "ValueError"

\* C14: an add_document call that raises leaves the registry, the filenames,
\* the tag sequence and the index as they were before the call.
C14_FailedAddChangesNothing ==
  [][(ret'.op = "add_document" /\ ret'.err # "none") =>
       /\ metadata' = metadata
       /\ filenames' = filenames
       /\ doc_ids' = doc_ids
       /\ index' = index]_vars

====
